---------------------------- MODULE Spec2Model ----------------------------
(***************************************************************************)
(* Lane assignment pass of generate-git-report.js: the single forward pass *)
(* over the newest-first commit list that gives every commit a column and  *)
(* a color and records the active lanes before and after its row.          *)
(*                                                                         *)
(* The input array is revealed one commit per iteration: iteration n of    *)
(* commits.forEach reads only commits[n], so `commits' holds the records   *)
(* the pass has already annotated and every step draws the next input      *)
(* record (any identifier, any parent list, duplicates and dangling        *)
(* parents included) from bounded sets.                                    *)
(*                                                                         *)
(* MAX_COLUMNS and COLORS.length are fixed numbers in the script (50 and   *)
(* 8).  The layout rules are stated for any maximum column count >= 1 and  *)
(* any palette size >= 1, and a run with 50 occupied columns is out of     *)
(* reach of exhaustive search.  MAX_COLUMNS is therefore a configuration   *)
(* value chosen in the initial state and never changed, and the palette    *)
(* is scaled down so that column mod palette size wraps within the         *)
(* columns a run can reach.                                                *)
(*                                                                         *)
(* Sequences are 1-based: parents[1] is the script's parents[0], and       *)
(* findIndex yields 0 where the script's findIndex yields -1.              *)
(***************************************************************************)
EXTENDS Integers, Sequences, FiniteSets, Bags, TLC

\* ------------------------------------------------------------------ bounds
NumHashes == 3        \* distinct commit identifiers in the input
MaxParents == 2       \* longest parent list of an input commit
MaxCommits == 4       \* longest input sequence
MaxColumns == 3       \* largest configured MAX_COLUMNS
COLORS_length == 2    \* palette size (COLORS.length), small enough to wrap

Hashes == 1..NumHashes

RECURSIVE SeqsUpTo(_, _)
SeqsUpTo(S, n) ==
  IF n = 0 THEN {<<>>}
  ELSE LET shorter == SeqsUpTo(S, n - 1)
       IN shorter \cup {Append(s, x) : s \in {t \in shorter : Len(t) = n - 1}, x \in S}

ParentLists == SeqsUpTo(Hashes, MaxParents)

VARIABLES
  commits,       \* the commit records annotated so far, in input order
  lanes,         \* the active lanes, in array order
  maxColumn,     \* the largest column handed out so far
  MAX_COLUMNS    \* configured maximum column count

vars == <<commits, lanes, maxColumn, MAX_COLUMNS>>

\* ------------------------------------------------------------------ helpers
Min(a, b) == IF a < b THEN a ELSE b

SetMin(S) == CHOOSE x \in S : \A y \in S : x <= y

Range(s) == {s[i] : i \in 1..Len(s)}

\* lanes.some(l => l.column === i)
columnTaken(ls, i) == \E k \in 1..Len(ls) : ls[k].column = i

\* Mutant of targeted: only the lane pushed last is compared.
targeted_lastOnly(ls, parentHash) ==
  ls # <<>> /\ ls[Len(ls)].targetHash = parentHash

\* lanes.some(l => l.targetHash === parentHash)
targeted(ls, parentHash) == \E k \in 1..Len(ls) : ls[k].targetHash = parentHash

\* Mutants of getNextFreeColumn: the column is the number of active lanes; the
\* fallback is MAX_COLUMNS, one past the last column; the column is the one
\* right of the rightmost occupied column, so vacated columns are not reused.
getNextFreeColumn_count(ls) == Min(Len(ls), MAX_COLUMNS - 1)

getNextFreeColumn_pastEnd(ls) ==
  LET free == {i \in 0..(MAX_COLUMNS - 1) : ~columnTaken(ls, i)}
  IN IF free # {} THEN SetMin(free) ELSE MAX_COLUMNS

getNextFreeColumn_rightmost(ls) ==
  LET above == {i \in 0..(MAX_COLUMNS - 1) : \A k \in 1..Len(ls) : ls[k].column < i}
  IN IF above # {} THEN SetMin(above) ELSE MAX_COLUMNS - 1

\* function getNextFreeColumn(): the first i in [0, MAX_COLUMNS) no lane holds,
\* MAX_COLUMNS - 1 when the loop finds none
getNextFreeColumn(ls) ==
  LET free == {i \in 0..(MAX_COLUMNS - 1) : ~columnTaken(ls, i)}
  IN IF free # {} THEN SetMin(free) ELSE MAX_COLUMNS - 1

\* Mutant of colorOf: the column is used as the color without wrapping.
colorOf_noWrap(col) == col

\* newCol % COLORS.length
colorOf(col) == col % COLORS_length

\* if (newCol > maxColumn) maxColumn = Math.min(newCol, MAX_COLUMNS - 1);
bumpMaxColumn(mc, newCol) ==
  IF newCol > mc THEN Min(newCol, MAX_COLUMNS - 1) ELSE mc

\* Mutants of findIndex: a match at the head of the array counts as no match
\* (the test laneIdx > 0 in place of laneIdx >= 0); the last matching lane
\* instead of the first.
findIndex_positive(ls, hash) ==
  LET hits == {k \in 1..Len(ls) : ls[k].targetHash = hash}
  IN IF hits # {} /\ SetMin(hits) > 1 THEN SetMin(hits) ELSE 0

findIndex_last(ls, hash) ==
  LET hits == {k \in 1..Len(ls) : ls[k].targetHash = hash}
  IN IF hits # {} THEN CHOOSE k \in hits : \A j \in hits : j <= k ELSE 0

\* lanes.findIndex(l => l.targetHash === commit.hash); 0 when there is none
findIndex(ls, hash) ==
  LET hits == {k \in 1..Len(ls) : ls[k].targetHash = hash}
  IN IF hits # {} THEN SetMin(hits) ELSE 0

\* Mutant of mergingColumns: the lane at laneIdx is not left out.
RECURSIVE mergingColumns_all(_, _, _, _)
mergingColumns_all(ls, laneIdx, hash, k) ==
  IF k > Len(ls) THEN <<>>
  ELSE IF ls[k].targetHash = hash
       THEN <<ls[k].column>> \o mergingColumns_all(ls, laneIdx, hash, k + 1)
       ELSE mergingColumns_all(ls, laneIdx, hash, k + 1)

\* lanes.filter((l, i) => i !== laneIdx && l.targetHash === commit.hash).map(l => l.column)
RECURSIVE mergingColumns(_, _, _, _)
mergingColumns(ls, laneIdx, hash, k) ==
  IF k > Len(ls) THEN <<>>
  ELSE IF k # laneIdx /\ ls[k].targetHash = hash
       THEN <<ls[k].column>> \o mergingColumns(ls, laneIdx, hash, k + 1)
       ELSE mergingColumns(ls, laneIdx, hash, k + 1)

\* Mutants of removeConsumed: only the first lane that targets the commit is
\* removed (a splice at laneIdx); the lanes on the commit's column are removed
\* instead of the lanes that target it; the filtered array is not assigned
\* back to lanes, so nothing is removed.
removeConsumed_kept(ls, hash) == ls

removeConsumed_firstOnly(ls, hash) ==
  LET idx == findIndex(ls, hash)
  IN IF idx = 0 THEN ls ELSE SubSeq(ls, 1, idx - 1) \o SubSeq(ls, idx + 1, Len(ls))

RECURSIVE removeColumn(_, _)
removeColumn(ls, col) ==
  IF ls = <<>> THEN <<>>
  ELSE IF Head(ls).column # col
       THEN <<Head(ls)>> \o removeColumn(Tail(ls), col)
       ELSE removeColumn(Tail(ls), col)

removeConsumed_byColumn(ls, hash) ==
  LET idx == findIndex(ls, hash)
  IN IF idx = 0 THEN ls ELSE removeColumn(ls, ls[idx].column)

\* lanes.filter(l => l.targetHash !== commit.hash)
RECURSIVE removeConsumed(_, _)
removeConsumed(ls, hash) ==
  IF ls = <<>> THEN <<>>
  ELSE IF Head(ls).targetHash # hash
       THEN <<Head(ls)>> \o removeConsumed(Tail(ls), hash)
       ELSE removeConsumed(Tail(ls), hash)

\* A lane object.  `born' is the identity of the object the script pushes:
\* the iteration that pushed it and the parent position it was pushed for.
\* The snapshots copy lanes element by element in array order, so each
\* snapshot entry carries the identity of the lane it copies.
Lane(targetHash, column, color, n, i) ==
  [targetHash |-> targetHash, column |-> column, color |-> color, born |-> <<n, i>>]

\* Mutant of pushFirstParent: no lane is pushed for a first parent that an
\* active lane already targets.
pushFirstParent_guarded(ls, parents, column, color, n) ==
  IF targeted(ls, parents[1]) THEN ls
  ELSE Append(ls, [targetHash |-> parents[1], column |-> column, color |-> color,
                   born |-> <<n, 1>>])

\* lanes.push({ targetHash: commit.parents[0], column: commit.column, color: commit.color })
pushFirstParent(ls, parents, column, color, n) ==
  Append(ls, Lane(parents[1], column, color, n, 1))

\* Mutant of pushOtherParents: the loop stops one parent early
\* (i < commit.parents.length - 1).
RECURSIVE pushOtherParents_shortLoop(_, _, _, _, _)
pushOtherParents_shortLoop(ls, mc, parents, i, n) ==
  IF i > Len(parents) - 1 THEN [lanes |-> ls, maxColumn |-> mc]
  ELSE IF ~targeted(ls, parents[i])
       THEN LET newCol == getNextFreeColumn(ls)
            IN pushOtherParents_shortLoop(
                 Append(ls, Lane(parents[i], newCol, colorOf(newCol), n, i)),
                 bumpMaxColumn(mc, newCol), parents, i + 1, n)
       ELSE pushOtherParents_shortLoop(ls, mc, parents, i + 1, n)

\* Mutant of pushOtherParents: maxColumn is not updated for the column a
\* later parent's lane is pushed on (lines 95 and 115 left out).
RECURSIVE pushOtherParents_noBump(_, _, _, _, _)
pushOtherParents_noBump(ls, mc, parents, i, n) ==
  IF i > Len(parents) THEN [lanes |-> ls, maxColumn |-> mc]
  ELSE IF ~targeted(ls, parents[i])
       THEN LET newCol == getNextFreeColumn(ls)
            IN pushOtherParents_noBump(
                 Append(ls, Lane(parents[i], newCol, colorOf(newCol), n, i)),
                 mc, parents, i + 1, n)
       ELSE pushOtherParents_noBump(ls, mc, parents, i + 1, n)

\* for (let i = 1; i < commit.parents.length; i++) { ... }: the state is the
\* pair (lanes, maxColumn); i is the 1-based parent position, starting at 2
RECURSIVE pushOtherParents(_, _, _, _, _)
pushOtherParents(ls, mc, parents, i, n) ==
  IF i > Len(parents) THEN [lanes |-> ls, maxColumn |-> mc]
  ELSE IF ~targeted(ls, parents[i])
       THEN LET newCol == getNextFreeColumn(ls)
            IN pushOtherParents(
                 Append(ls, Lane(parents[i], newCol, colorOf(newCol), n, i)),
                 bumpMaxColumn(mc, newCol), parents, i + 1, n)
       ELSE pushOtherParents(ls, mc, parents, i + 1, n)

\* if (commit.parents.length > 0) { push first parent; loop over the others }
pushParents(ls, mc, parents, column, color, n) ==
  IF Len(parents) > 0
  THEN pushOtherParents(pushFirstParent(ls, parents, column, color, n), mc, parents, 2, n)
  ELSE [lanes |-> ls, maxColumn |-> mc]

\* Mutant of recordCommit: the snapshots are the lanes array itself, not a
\* copy.  A new branch tip pushes into the array it found, so every earlier
\* record whose lanesAfterCommit is that array shows the pushed lanes too.
recordCommit_aliased(cs, row) ==
  Append([k \in 1..Len(cs) |->
            IF row.isNewBranch /\ cs[k].lanesAfterCommit = row.lanesBeforeCommit
            THEN [cs[k] EXCEPT !.lanesAfterCommit = row.lanesAfterCommit]
            ELSE cs[k]],
         row)

\* The callback assigns the fields of the commit it is called with and of no
\* other; lanesBeforeCommit and lanesAfterCommit are copies made by lanes.map,
\* so later pushes do not reach them.
recordCommit(cs, row) == Append(cs, row)

\* ------------------------------------------------------------------ the pass
Init ==
  /\ commits = <<>>
  /\ lanes = <<>>
  /\ maxColumn = 0
  /\ MAX_COLUMNS \in 1..MaxColumns

\* The identifiers the records read so far mention (commit ids and parent ids).
RECURSIVE Mentioned(_)
Mentioned(cs) ==
  IF cs = <<>> THEN {}
  ELSE {Head(cs).hash} \cup Range(Head(cs).parents) \cup Mentioned(Tail(cs))

\* The pass only compares identifiers for equality, so inputs that differ by a
\* renaming of identifiers lay out alike.  One input per renaming class is
\* read: an identifier not mentioned before is the next unused number.
FreshInOrder(ids) ==
  \A j \in 1..Len(ids) :
    ids[j] <= Cardinality(Mentioned(commits) \cup {ids[k] : k \in 1..(j - 1)}) + 1

\* One iteration of commits.forEach for the input record (hash, parents).
ProcessCommit(hash, parents) ==
  /\ Len(commits) < MaxCommits
  /\ FreshInOrder(<<hash>> \o parents)
  /\ LET n == Len(commits) + 1
         laneIdx == findIndex(lanes, hash)
         expected == laneIdx > 0
         newCol == getNextFreeColumn(lanes)
         column == IF expected THEN lanes[laneIdx].column ELSE newCol
         color == IF expected THEN lanes[laneIdx].color ELSE colorOf(newCol)
         merging == IF expected THEN mergingColumns(lanes, laneIdx, hash, 1) ELSE <<>>
         kept == IF expected THEN removeConsumed(lanes, hash) ELSE lanes
         mc == IF expected THEN maxColumn ELSE bumpMaxColumn(maxColumn, newCol)
         after == pushParents(kept, mc, parents, column, color, n)
     IN /\ lanes' = after.lanes
        /\ maxColumn' = after.maxColumn
        /\ commits' = recordCommit(commits,
             [hash |-> hash, parents |-> parents,
              column |-> column, color |-> color,
              isNewBranch |-> ~expected,
              mergingFromColumns |-> merging,
              lanesBeforeCommit |-> lanes,
              lanesAfterCommit |-> after.lanes])
  /\ UNCHANGED MAX_COLUMNS

Next == \E hash \in Hashes, parents \in ParentLists : ProcessCommit(hash, parents)

Spec == Init /\ [][Next]_vars

\* ------------------------------------------------------------------ rendering
\* generateSvgLines(commit): the <line> elements of one row.  A line is the
\* record of its x1, y1, x2, y2 and its stroke, the stroke being the index
\* into COLORS the script computes.
COLUMN_WIDTH == 14

h == 28

Line(x1, y1, x2, y2, stroke) ==
  [x1 |-> x1, y1 |-> y1, x2 |-> x2, y2 |-> y2, stroke |-> stroke]

\* the elements of s in order of first occurrence (insertion order of the
\* keys of a Map or of the values of a Set)
RECURSIVE InsertionOrder(_)
InsertionOrder(s) ==
  IF s = <<>> THEN <<>>
  ELSE LET front == InsertionOrder(SubSeq(s, 1, Len(s) - 1))
           x == s[Len(s)]
       IN IF \E k \in 1..Len(front) : front[k] = x THEN front ELSE Append(front, x)

\* the keys of the Map that lanes.forEach(lane => m.set(lane.column, lane.color)) fills
colKeys(ls) == InsertionOrder([k \in 1..Len(ls) |-> ls[k].column])

\* m.has(col)
colHas(ls, col) == \E k \in 1..Len(ls) : ls[k].column = col

\* m.get(col): the color set last for the column
colGet(ls, col) ==
  LET last == CHOOSE k \in 1..Len(ls) :
                /\ ls[k].column = col
                /\ \A j \in 1..Len(ls) : ls[j].column = col => j <= k
  IN ls[last].color

\* Mutant of allColumns: only the columns of lanesBeforeCommit are visited.
allColumns_beforeOnly(commit) == colKeys(commit.lanesBeforeCommit)

\* new Set([...beforeCols.keys(), ...afterCols.keys()])
allColumns(commit) ==
  InsertionOrder(colKeys(commit.lanesBeforeCommit) \o colKeys(commit.lanesAfterCommit))

\* the body of allColumns.forEach(col => { ... }): the lines pushed for col
verticalLine(commit, col) ==
  LET x == 10 + col * COLUMN_WIDTH
      hasBefore == colHas(commit.lanesBeforeCommit, col)
      hasAfter == colHas(commit.lanesAfterCommit, col)
      colorIdx == IF hasBefore THEN colGet(commit.lanesBeforeCommit, col)
                  ELSE colGet(commit.lanesAfterCommit, col)
      color == colorIdx % COLORS_length
  IN IF hasBefore /\ hasAfter THEN <<Line(x, 0, x, h, color)>>
     ELSE IF hasBefore /\ ~hasAfter THEN <<Line(x, 0, x, 14, color)>>
     ELSE IF ~hasBefore /\ hasAfter THEN <<Line(x, 14, x, h, color)>>
     ELSE <<>>

RECURSIVE verticalLinesFrom(_, _, _)
verticalLinesFrom(commit, cols, k) ==
  IF k > Len(cols) THEN <<>>
  ELSE verticalLine(commit, cols[k]) \o verticalLinesFrom(commit, cols, k + 1)

\* allColumns.forEach(...)
verticalLines(commit) == verticalLinesFrom(commit, allColumns(commit), 1)

Max(a, b) == IF a > b THEN a ELSE b

\* commit.mergingFromColumns.forEach(mergeCol => { ... })
RECURSIVE mergeLinesFrom(_, _)
mergeLinesFrom(commit, k) ==
  IF k > Len(commit.mergingFromColumns) THEN <<>>
  ELSE LET mergeCol == commit.mergingFromColumns[k]
           myX == 10 + commit.column * COLUMN_WIDTH
           fromX == 10 + mergeCol * COLUMN_WIDTH
       IN <<Line(Min(fromX, myX), 14, Max(fromX, myX), 14, mergeCol % COLORS_length)>>
            \o mergeLinesFrom(commit, k + 1)

mergeLines(commit) == mergeLinesFrom(commit, 1)

\* for (let i = 1; i < commit.parents.length; i++) { ... } of generateSvgLines;
\* i is the 1-based parent position
RECURSIVE parentLinesFrom(_, _)
parentLinesFrom(commit, i) ==
  IF i > Len(commit.parents) THEN <<>>
  ELSE LET after == commit.lanesAfterCommit
           idx == findIndex(after, commit.parents[i])
           myX == 10 + commit.column * COLUMN_WIDTH
       IN (IF idx > 0 /\ after[idx].column # commit.column
           THEN LET toX == 10 + after[idx].column * COLUMN_WIDTH
                IN <<Line(Min(toX, myX), 14, Max(toX, myX), 14,
                          after[idx].color % COLORS_length)>>
           ELSE <<>>)
          \o parentLinesFrom(commit, i + 1)

\* Mutant of parentLines: the loop starts at the first parent.
parentLines_fromFirst(commit) ==
  IF Len(commit.parents) > 1 THEN parentLinesFrom(commit, 1) ELSE <<>>

\* if (commit.parents.length > 1) { for ... }
parentLines(commit) ==
  IF Len(commit.parents) > 1 THEN parentLinesFrom(commit, 2) ELSE <<>>

\* function generateSvgLines(commit): the lines in the order they are pushed
generateSvgLines(commit) ==
  verticalLines(commit) \o mergeLines(commit) \o parentLines(commit)

\* const GRAPH_WIDTH = (maxColumn + 2) * COLUMN_WIDTH + 20, computed when the
\* pass has ended; every prefix of the input is a complete input, so it is
\* the width of the graph cell of the rows read so far
GRAPH_WIDTH == (maxColumn + 2) * COLUMN_WIDTH + 20

\* .commit-dot { width: 8px; ... } under box-sizing: border-box
commitDotWidth == 8

\* const dotX = 10 + commit.column * COLUMN_WIDTH
dotX(commit) == 10 + commit.column * COLUMN_WIDTH

\* style="left:${dotX - 4}px"
commitDotLeft(commit) == dotX(commit) - 4

\* ------------------------------------------------------------------ vocabulary
Rows == 1..Len(commits)

\* the positions of the lanes of ls that target hash
Targeting(ls, hash) == {k \in 1..Len(ls) : ls[k].targetHash = hash}

\* lane identity a was pushed before lane identity b
Earlier(a, b) == a[1] < b[1] \/ (a[1] = b[1] /\ a[2] < b[2])

\* how often lane l occurs in ls
Occurrences(ls, l) == Cardinality({k \in 1..Len(ls) : ls[k] = l})

\* how often column col occurs in the column list cols
CountIn(cols, col) == Cardinality({k \in 1..Len(cols) : cols[k] = col})

\* the columns lanes of ls hold
Columns(ls) == {ls[k].column : k \in 1..Len(ls)}

\* the lanes of ls that iteration n pushed
PushedBy(ls, n) == {k \in 1..Len(ls) : ls[k].born[1] = n}

NoSharedColumn(ls) ==
  \A j, k \in 1..Len(ls) : j # k => ls[j].column # ls[k].column

SharedOnlyOnLastColumn(ls) ==
  \A j, k \in 1..Len(ls) :
    (j # k /\ ls[j].column = ls[k].column) => ls[j].column = MAX_COLUMNS - 1

\* ------------------------------------------------------------------ C1
\* C1 as stated: at every row boundary no two active lanes hold the same
\* column.
C1_ColumnExclusivity ==
  \A n \in Rows :
    /\ NoSharedColumn(commits[n].lanesBeforeCommit)
    /\ NoSharedColumn(commits[n].lanesAfterCommit)

\* C1 amended: at every row boundary two active lanes hold the same column
\* only on the last column MAX_COLUMNS - 1, the column an allocation falls
\* back to when every column is occupied; on every other column at most one
\* lane is active.
C1_ExclusiveBelowLastColumn ==
  \A n \in Rows :
    /\ SharedOnlyOnLastColumn(commits[n].lanesBeforeCommit)
    /\ SharedOnlyOnLastColumn(commits[n].lanesAfterCommit)

\* a row boundary with two lanes on the last column and a third lane alone
\* on a lower column
C1_Witness ==
  \E n \in Rows :
    LET ls == commits[n].lanesAfterCommit
    IN /\ MAX_COLUMNS >= 2
       /\ \E j, k \in 1..Len(ls) : j # k /\ ls[j].column = ls[k].column
       /\ \E j \in 1..Len(ls) : ls[j].column < MAX_COLUMNS - 1

\* ------------------------------------------------------------------ C2
\* C2: conservation.  For every commit c, every lane of lanesBefore(c) that
\* does not target c is in lanesAfter(c) exactly once and unchanged, no lane
\* of lanesBefore(c) that targets c is in lanesAfter(c), and every other lane
\* of lanesAfter(c) was pushed while processing c and targets a parent of c.
C2_Conservation ==
  \A n \in Rows :
    LET c == commits[n]
        before == c.lanesBeforeCommit
        after == c.lanesAfterCommit
    IN /\ \A k \in 1..Len(before) :
            IF before[k].targetHash # c.hash
            THEN Occurrences(after, before[k]) = 1
            ELSE Occurrences(after, before[k]) = 0
       /\ \A k \in 1..Len(after) :
            \/ /\ Occurrences(before, after[k]) = 1
               /\ after[k].targetHash # c.hash
            \/ /\ after[k].born[1] = n
               /\ after[k].targetHash \in Range(c.parents)
               /\ Occurrences(after, after[k]) = 1

\* a commit that consumes a lane, lets another lane pass and pushes a lane
C2_Witness ==
  \E n \in Rows :
    LET c == commits[n]
    IN /\ Targeting(c.lanesBeforeCommit, c.hash) # {}
       /\ \E k \in 1..Len(c.lanesBeforeCommit) :
            c.lanesBeforeCommit[k].targetHash # c.hash
       /\ PushedBy(c.lanesAfterCommit, n) # {}

\* ------------------------------------------------------------------ C3
\* C3: merge detection.  When two or more lanes of lanesBefore(c) target c,
\* mergingFromColumns(c) together with c's own column is, column by column
\* and counting repetitions, the columns of the lanes of lanesBefore(c) that
\* target c.
C3_MergeDetection ==
  \A n \in Rows :
    LET c == commits[n]
        hits == Targeting(c.lanesBeforeCommit, c.hash)
    IN Cardinality(hits) >= 2 =>
         /\ Len(c.mergingFromColumns) = Cardinality(hits) - 1
         /\ \A col \in 0..(MaxColumns - 1) :
              Cardinality({k \in hits : c.lanesBeforeCommit[k].column = col})
                = CountIn(c.mergingFromColumns, col)
                    + (IF col = c.column THEN 1 ELSE 0)

\* three lanes on three columns converge on one commit
C3_Witness ==
  \E n \in Rows :
    LET c == commits[n]
        hits == Targeting(c.lanesBeforeCommit, c.hash)
    IN /\ Cardinality(hits) = 3
       /\ Cardinality({c.lanesBeforeCommit[k].column : k \in hits}) = 3

\* ------------------------------------------------------------------ C4
\* C4: tie-break.  When several lanes of lanesBefore(c) target c, c has the
\* column and the color of the one pushed earliest; with exactly two such
\* lanes mergingFromColumns(c) is exactly the column of the other.
C4_TieBreak ==
  \A n \in Rows :
    LET c == commits[n]
        before == c.lanesBeforeCommit
        hits == Targeting(before, c.hash)
    IN Cardinality(hits) >= 2 =>
         \E k \in hits :
           /\ \A j \in hits \ {k} : Earlier(before[k].born, before[j].born)
           /\ c.column = before[k].column
           /\ c.color = before[k].color
           /\ Cardinality(hits) = 2 =>
                \A j \in hits \ {k} : c.mergingFromColumns = <<before[j].column>>

\* two lanes on different columns await the commit, and the one pushed first
\* is on the higher column
C4_Witness ==
  \E n \in Rows :
    LET c == commits[n]
        before == c.lanesBeforeCommit
        hits == Targeting(before, c.hash)
    IN /\ Cardinality(hits) = 2
       /\ \E j, k \in hits :
            /\ Earlier(before[k].born, before[j].born)
            /\ before[k].column > before[j].column
            /\ c.column = before[k].column

\* ------------------------------------------------------------------ C5
\* C5 as stated: for every commit c with at least one parent, a lane of
\* lanesAfter(c) that targets c's first parent has c's column and c's color.
C5_FirstParentLaneOnOwnColumn ==
  \A n \in Rows :
    LET c == commits[n]
        after == c.lanesAfterCommit
    IN Len(c.parents) >= 1 =>
         \A k \in Targeting(after, c.parents[1]) :
           after[k].column = c.column /\ after[k].color = c.color

\* C5 amended: for every commit c with at least one parent, lanesAfter(c)
\* holds the lane pushed for c's first parent while processing c, and that
\* lane targets the first parent on c's own column with c's own color; a lane
\* that targeted the same parent before keeps its own column and color.
C5_PrimaryContinuity ==
  \A n \in Rows :
    LET c == commits[n]
        after == c.lanesAfterCommit
    IN Len(c.parents) >= 1 =>
         \E k \in 1..Len(after) :
           /\ after[k].born = <<n, 1>>
           /\ after[k].targetHash = c.parents[1]
           /\ after[k].column = c.column
           /\ after[k].color = c.color

\* an awaited commit and a new branch tip, each with a parent, the awaited one
\* on a column above a free one
C5_Witness ==
  /\ \E n \in Rows :
       /\ ~commits[n].isNewBranch
       /\ Len(commits[n].parents) >= 1
       /\ commits[n].column > 0
       /\ 0 \notin Columns(commits[n].lanesBeforeCommit)
  /\ \E n \in Rows :
       /\ commits[n].isNewBranch
       /\ Len(commits[n].parents) >= 1
       /\ targeted(commits[n].lanesBeforeCommit, commits[n].parents[1])

\* ------------------------------------------------------------------ C6
\* C6 as stated: a lane is pushed for a parent, at any parent position, only
\* when no lane active at that moment (kept from before or pushed earlier in
\* the same iteration) targets that parent.
C6_NoLaneForAwaitedParent ==
  \A n \in Rows :
    LET after == commits[n].lanesAfterCommit
    IN \A k \in PushedBy(after, n) :
         \A j \in 1..(k - 1) : after[j].targetHash # after[k].targetHash

\* C6 amended: a lane is pushed for a parent at position 2 or later only when
\* no lane active at that moment targets that parent; for the first parent a
\* lane is pushed whenever the commit has a parent, also when an active lane
\* already targets it.
C6_NoLaneForAwaitedOtherParent ==
  \A n \in Rows :
    LET c == commits[n]
        after == c.lanesAfterCommit
    IN /\ \A k \in PushedBy(after, n) :
            after[k].born[2] >= 2 =>
              \A j \in 1..(k - 1) : after[j].targetHash # after[k].targetHash
       /\ Len(c.parents) >= 1 <=> \E k \in PushedBy(after, n) : after[k].born[2] = 1

\* one commit's second parent is skipped because a lane kept from before
\* targets it, and one commit's first parent gets a second lane
C6_Witness ==
  /\ \E n \in Rows :
       LET c == commits[n]
       IN /\ Len(c.parents) = 2
          /\ c.parents[2] # c.parents[1]
          /\ targeted(c.lanesBeforeCommit, c.parents[2])
          /\ c.parents[2] # c.hash
          /\ Cardinality(PushedBy(c.lanesAfterCommit, n)) = 1
  /\ \E n \in Rows :
       LET c == commits[n]
       IN /\ Len(c.parents) >= 1
          /\ Cardinality(Targeting(c.lanesAfterCommit, c.parents[1])) >= 2

\* ------------------------------------------------------------------ C7
\* C7: color-column coupling.  Every processed commit, every lane of every
\* snapshot and every active lane has color = column mod palette size.
Coupled(x) == x.color = x.column % COLORS_length

C7_ColorColumnCoupling ==
  /\ \A n \in Rows :
       /\ Coupled(commits[n])
       /\ \A k \in 1..Len(commits[n].lanesBeforeCommit) :
            Coupled(commits[n].lanesBeforeCommit[k])
       /\ \A k \in 1..Len(commits[n].lanesAfterCommit) :
            Coupled(commits[n].lanesAfterCommit[k])
  /\ \A k \in 1..Len(lanes) : Coupled(lanes[k])

\* an awaited commit and a new branch tip on a column past the palette, and a
\* lane pushed for a second parent on such a column
C7_Witness ==
  /\ \E n \in Rows :
       ~commits[n].isNewBranch /\ commits[n].column >= COLORS_length
  /\ \E n \in Rows :
       commits[n].isNewBranch /\ commits[n].column >= COLORS_length
  /\ \E n \in Rows :
       \E k \in PushedBy(commits[n].lanesAfterCommit, n) :
         /\ commits[n].lanesAfterCommit[k].born[2] = 2
         /\ commits[n].lanesAfterCommit[k].column >= COLORS_length

\* ------------------------------------------------------------------ C8
\* C8: lanes are removed only by consumption.  A lane of lanesAfter(b) is in
\* lanesBefore(c) and lanesAfter(c) of a later commit c, once and unchanged,
\* unless a commit after b up to c (for lanesBefore: before c) has the lane's
\* target as its identifier; the active set after the last commit is its
\* lanesAfter.
C8_RemovedOnlyByConsumption ==
  /\ \A b, c \in Rows :
       b < c =>
         \A k \in 1..Len(commits[b].lanesAfterCommit) :
           LET l == commits[b].lanesAfterCommit[k]
           IN /\ (\A m \in (b + 1)..(c - 1) : commits[m].hash # l.targetHash)
                   => Occurrences(commits[c].lanesBeforeCommit, l) = 1
              /\ (\A m \in (b + 1)..c : commits[m].hash # l.targetHash)
                   => Occurrences(commits[c].lanesAfterCommit, l) = 1
  /\ commits # <<>> => lanes = commits[Len(commits)].lanesAfterCommit

\* a lane pushed by the first commit whose target no commit has survives
\* three more commits, one of which consumes another lane and one of which
\* is a new branch tip when every column is occupied
C8_Witness ==
  /\ Len(commits) = MaxCommits
  /\ \E k \in 1..Len(commits[1].lanesAfterCommit) :
       LET l == commits[1].lanesAfterCommit[k]
       IN /\ \A m \in Rows : commits[m].hash # l.targetHash
          /\ Occurrences(lanes, l) = 1
  /\ \E n \in Rows :
       Len(commits[n].lanesAfterCommit) < Len(commits[n].lanesBeforeCommit)
  /\ \E n \in Rows :
       /\ commits[n].isNewBranch
       /\ Columns(commits[n].lanesBeforeCommit) = 0..(MAX_COLUMNS - 1)

\* ------------------------------------------------------------------ C9
\* C9: column exhaustion.  A new branch tip processed while every column of
\* [0, MAX_COLUMNS) is occupied gets column MAX_COLUMNS - 1, and so does a
\* lane pushed for a later parent at such a moment; every commit column and
\* every lane column is in [0, MAX_COLUMNS - 1]; and the pass can always
\* process a next commit.
AllColumns == 0..(MAX_COLUMNS - 1)

C9_ExhaustionClamps ==
  /\ \A n \in Rows :
       LET c == commits[n]
           before == c.lanesBeforeCommit
           after == c.lanesAfterCommit
       IN /\ c.column \in AllColumns
          /\ Columns(before) \subseteq AllColumns
          /\ Columns(after) \subseteq AllColumns
          /\ (c.isNewBranch /\ Columns(before) = AllColumns)
               => c.column = MAX_COLUMNS - 1
          /\ \A k \in PushedBy(after, n) :
               (after[k].born[2] >= 2 /\ Columns(SubSeq(after, 1, k - 1)) = AllColumns)
                 => after[k].column = MAX_COLUMNS - 1
  /\ Len(commits) < MaxCommits => ENABLED Next

\* with the widest configuration a new branch tip arrives when every column is
\* occupied, takes the last column and leaves more lanes than columns
C9_Witness ==
  /\ MAX_COLUMNS = MaxColumns
  /\ \E n \in Rows :
       LET c == commits[n]
       IN /\ c.isNewBranch
          /\ Columns(c.lanesBeforeCommit) = AllColumns
          /\ c.column = MAX_COLUMNS - 1
          /\ Len(c.lanesAfterCommit) > MAX_COLUMNS

\* ------------------------------------------------------------------ C10
\* C10: first fit.  A commit that no lane of lanesBefore(c) targets gets the
\* lowest column of [0, MAX_COLUMNS) that no lane of lanesBefore(c) holds,
\* whenever there is one; the first commit gets column 0.
C10_FirstFit ==
  \A n \in Rows :
    LET c == commits[n]
        free == AllColumns \ Columns(c.lanesBeforeCommit)
    IN /\ (Targeting(c.lanesBeforeCommit, c.hash) = {} /\ free # {})
            => /\ c.column \in free
               /\ \A col \in free : c.column <= col
       /\ n = 1 => c.column = 0

\* a new branch tip takes a vacated column below an occupied one
C10_Witness ==
  \E n \in Rows :
    LET c == commits[n]
    IN /\ n > 1
       /\ c.isNewBranch
       /\ c.column < MAX_COLUMNS - 1
       /\ \E col \in Columns(c.lanesBeforeCommit) : col > c.column
       /\ \E m \in 1..(n - 1) : c.column \in Columns(commits[m].lanesAfterCommit)

\* ------------------------------------------------------------------ C11
\* C11: a processed commit is frozen.  Every step of the pass leaves the
\* record of every commit processed before it as it was: its column, color,
\* lanesBeforeCommit, lanesAfterCommit and mergingFromColumns do not change,
\* and each record holds one column of [0, MAX_COLUMNS) and one color of the
\* palette.
C11_ProcessedCommitsFrozen ==
  [][/\ \A n \in Rows : Len(commits') >= n /\ commits'[n] = commits[n]
     /\ \A n \in 1..Len(commits') :
          /\ commits'[n].column \in 0..(MAX_COLUMNS - 1)
          /\ commits'[n].color \in 0..(COLORS_length - 1)]_vars

\* a full pass whose commits are on different columns, the first commit being
\* followed by a new branch tip
C11_Witness ==
  /\ Len(commits) = MaxCommits
  /\ Cardinality({commits[n].column : n \in Rows}) >= 2
  /\ commits[2].isNewBranch
  /\ commits[1].lanesAfterCommit # lanes

\* ------------------------------------------------------------------ C12
\* the input read so far is one complete linear chain: the only parent of
\* each commit is the commit read next, and the last commit has no parent
IsLinearChain ==
  /\ commits # <<>>
  /\ \A n \in 1..(Len(commits) - 1) : commits[n].parents = <<commits[n + 1].hash>>
  /\ commits[Len(commits)].parents = <<>>

\* C12: linear chain.  When the input is one complete linear chain, every
\* commit is on column 0, no commit has merge columns, the first commit and
\* no other is flagged as a new branch tip, and no lane is active after the
\* last commit.
C12_LinearChain ==
  IsLinearChain =>
    /\ \A n \in Rows :
         /\ commits[n].column = 0
         /\ commits[n].mergingFromColumns = <<>>
         /\ commits[n].isNewBranch <=> n = 1
    /\ commits[Len(commits)].lanesAfterCommit = <<>>
    /\ lanes = <<>>

\* the chain A -> B -> C of three different commits, with room for more
\* columns than the one it uses
C12_Witness ==
  /\ IsLinearChain
  /\ Len(commits) = 3
  /\ Cardinality({commits[n].hash : n \in Rows}) = 3
  /\ MAX_COLUMNS >= 2

\* ------------------------------------------------------------------ C14
\* C14: case split.  A commit c is flagged as a new branch tip exactly when
\* no lane of lanesBefore(c) targets c, and then it has no merge columns;
\* otherwise its column is the column of a lane of lanesBefore(c) that
\* targets c.
C14_CaseSplit ==
  \A n \in Rows :
    LET c == commits[n]
        before == c.lanesBeforeCommit
        hits == Targeting(before, c.hash)
    IN /\ c.isNewBranch <=> hits = {}
       /\ c.isNewBranch => c.mergingFromColumns = <<>>
       /\ ~c.isNewBranch => \E k \in hits : c.column = before[k].column

\* a commit awaited by the lane at the head of the array, on a column other
\* than the lowest free one, and a new branch tip that finds active lanes
C14_Witness ==
  /\ \E n \in Rows :
       LET c == commits[n]
       IN /\ ~c.isNewBranch
          /\ c.lanesBeforeCommit[1].targetHash = c.hash
          /\ c.column # 0
  /\ \E n \in Rows : commits[n].isNewBranch /\ commits[n].lanesBeforeCommit # <<>>

\* ------------------------------------------------------------------ C15
\* the positions of the lanes of lanesAfter(commits[n]) that were active when
\* the loop reached parent position i: the lanes kept from before and the
\* lanes pushed for earlier parent positions
ActiveAtParent(after, n, i) ==
  {k \in 1..Len(after) : after[k].born[1] < n \/ (after[k].born[1] = n /\ after[k].born[2] < i)}

NotTargeting(ls, hash) == SelectSeq(ls, LAMBDA l : l.targetHash # hash)

XOf(col) == 10 + col * COLUMN_WIDTH

\* the positions of the vertical lines among ls: one x, two different y
Verticals(ls) == {k \in 1..Len(ls) : ls[k].x1 = ls[k].x2 /\ ls[k].y1 # ls[k].y2}

\* C17: vertical segments.  For each commit the row has exactly one vertical
\* line for every column that a lane of lanesBefore or lanesAfter holds and
\* none elsewhere; the line spans the whole row when the column is in both,
\* ends at the middle of the row when it is only in lanesBefore, and starts
\* at the middle when it is only in lanesAfter.
C17_VerticalSegments ==
  \A n \in Rows :
    LET c == commits[n]
        ls == generateSvgLines(c)
        inBefore == Columns(c.lanesBeforeCommit)
        inAfter == Columns(c.lanesAfterCommit)
    IN /\ \A col \in inBefore \cup inAfter :
            LET at == {k \in Verticals(ls) : ls[k].x1 = XOf(col)}
            IN /\ Cardinality(at) = 1
               /\ \A k \in at :
                    /\ ls[k].y1 = (IF col \in inBefore THEN 0 ELSE 14)
                    /\ ls[k].y2 = (IF col \in inAfter THEN 28 ELSE 14)
       /\ \A k \in Verticals(ls) :
            \E col \in inBefore \cup inAfter : ls[k].x1 = XOf(col)

\* a row with a line passing through, a line ending and a line starting
C17_Witness ==
  \E n \in Rows :
    LET c == commits[n]
        inBefore == Columns(c.lanesBeforeCommit)
        inAfter == Columns(c.lanesAfterCommit)
    IN /\ inBefore \cap inAfter # {}
       /\ inBefore \ inAfter # {}
       /\ inAfter \ inBefore # {}

\* ------------------------------------------------------------------ C18
\* the positions of the horizontal lines among ls: one y
Horizontals(ls) == {k \in 1..Len(ls) : ls[k].y1 = ls[k].y2}

\* the parent positions 2.. of commit c that get a connector: the first lane
\* of lanesAfter(c) that targets the parent exists and is off c's column
ConnectedParents(c) ==
  {i \in 2..Len(c.parents) :
     LET hits == Targeting(c.lanesAfterCommit, c.parents[i])
     IN hits # {} /\ c.lanesAfterCommit[SetMin(hits)].column # c.column}

\* the column the connector of parent position i leads to
ParentColumn(c, i) ==
  c.lanesAfterCommit[SetMin(Targeting(c.lanesAfterCommit, c.parents[i]))].column

\* C18: horizontal connectors.  At a commit's row the horizontal lines are,
\* counted between every pair of columns, exactly one per entry of
\* mergingFromColumns between that column and the commit's column, and one
\* per parent at position 2 or later between the commit's column and the
\* column of the lane of lanesAfter that targets the parent (the first such
\* lane), provided that lane exists and is not on the commit's column; all
\* of them lie at the middle of the row.
C18_HorizontalConnectors ==
  \A n \in Rows :
    LET c == commits[n]
        ls == generateSvgLines(c)
    IN /\ \A k \in Horizontals(ls) : ls[k].y1 = 14
       /\ Horizontals(ls) \cup Verticals(ls) = 1..Len(ls)
       /\ Cardinality(Horizontals(ls))
            = Len(c.mergingFromColumns) + Cardinality(ConnectedParents(c))
       /\ \A p, q \in AllColumns :
            p <= q =>
              Cardinality({k \in Horizontals(ls) : ls[k].x1 = XOf(p) /\ ls[k].x2 = XOf(q)})
                = Cardinality({k \in 1..Len(c.mergingFromColumns) :
                                 {c.mergingFromColumns[k], c.column} = {p, q}})
                  + Cardinality({i \in ConnectedParents(c) :
                                   {ParentColumn(c, i), c.column} = {p, q}})

\* a row with a connector from a merging lane and a connector to a second
\* parent, and a merge row whose first parent is also targeted by an older
\* lane on another column
C18_Witness ==
  /\ \E n \in Rows :
       LET c == commits[n]
       IN /\ \E k \in 1..Len(c.mergingFromColumns) : c.mergingFromColumns[k] # c.column
          /\ ConnectedParents(c) # {}
  /\ \E n \in Rows :
       LET c == commits[n]
           hits == Targeting(c.lanesAfterCommit, c.parents[1])
       IN /\ Len(c.parents) = 2
          /\ c.lanesAfterCommit[SetMin(hits)].column # c.column

\* ------------------------------------------------------------------ C19
\* at every allocation of the pass so far fewer than MAX_COLUMNS lanes were
\* active: when a new branch tip took its column, and when a lane was pushed
\* for a parent at position 2 or later
AlwaysBelowMaxColumns ==
  \A n \in Rows :
    LET c == commits[n]
        after == c.lanesAfterCommit
    IN /\ c.isNewBranch => Len(c.lanesBeforeCommit) < MAX_COLUMNS
       /\ \A k \in PushedBy(after, n) : after[k].born[2] >= 2 => k - 1 < MAX_COLUMNS

\* C19: as long as fewer than MAX_COLUMNS lanes were active at every
\* allocation, the active lanes are on pairwise different columns at every
\* row boundary and no commit's mergingFromColumns contains the commit's own
\* column.
C19_DistinctWithoutClamping ==
  AlwaysBelowMaxColumns =>
    /\ NoSharedColumn(lanes)
    /\ \A n \in Rows :
         /\ NoSharedColumn(commits[n].lanesBeforeCommit)
         /\ NoSharedColumn(commits[n].lanesAfterCommit)
         /\ \A k \in 1..Len(commits[n].mergingFromColumns) :
              commits[n].mergingFromColumns[k] # commits[n].column

\* a pass without clamping in which a commit merges two lanes, a new branch
\* tip takes a column below an occupied one, and two lanes stay active
C19_Witness ==
  /\ AlwaysBelowMaxColumns
  /\ MAX_COLUMNS = MaxColumns
  /\ \E n \in Rows : Len(commits[n].mergingFromColumns) >= 1
  /\ \E n \in Rows :
       /\ n > 1
       /\ commits[n].isNewBranch
       /\ \E col \in Columns(commits[n].lanesBeforeCommit) : col > commits[n].column
  /\ Len(lanes) >= 2

\* ------------------------------------------------------------------ C20
\* the input read so far has unique identifiers and is in newest-first
\* topological order: no parent of a commit is the commit itself or a commit
\* read before it
UniqueTopological ==
  /\ \A m, n \in Rows : m # n => commits[m].hash # commits[n].hash
  /\ \A m, n \in Rows : m <= n => commits[m].hash \notin Range(commits[n].parents)

\* C20: for an input with unique identifiers in newest-first topological
\* order, a commit is flagged as a new branch tip exactly when no commit read
\* before it lists its identifier among its parents.
C20_NewTipIffNoChildBefore ==
  UniqueTopological =>
    \A n \in Rows :
      commits[n].isNewBranch
        <=> \A m \in 1..(n - 1) : commits[n].hash \notin Range(commits[m].parents)

\* two branch tips with the same parent, read before that parent: the second
\* tip is flagged, the parent is not
C20_Witness ==
  /\ UniqueTopological
  /\ Len(commits) = 3
  /\ commits[2].isNewBranch
  /\ ~commits[3].isNewBranch
  /\ Cardinality(Targeting(commits[3].lanesBeforeCommit, commits[3].hash)) = 2

\* ------------------------------------------------------------------ C21
\* the identifiers of the commits read up to and including row n
ProcessedUpTo(n) == {commits[m].hash : m \in 1..n}

\* the identifiers the lanes of ls wait for
Targets(ls) == {ls[k].targetHash : k \in 1..Len(ls)}

\* C21: for an input with unique identifiers in newest-first topological
\* order, no lane of a commit's lanesAfterCommit targets that commit or a
\* commit read before it; so at the end of the input read so far every lane
\* still active targets an identifier that no commit of the input carries.
C21_NoLaneForProcessedCommit ==
  UniqueTopological =>
    /\ \A n \in Rows :
         Targets(commits[n].lanesAfterCommit) \cap ProcessedUpTo(n) = {}
    /\ Targets(lanes) \cap ProcessedUpTo(Len(commits)) = {}

\* a merge commit, then its first parent, which has the merge commit's second
\* parent as its own parent: the lane that waited for the first parent is gone
\* after its row, and the two lanes that remain wait for an identifier that
\* no commit read so far carries
C21_Witness ==
  /\ UniqueTopological
  /\ Len(commits) >= 2
  /\ LET c == commits[Len(commits)]
     IN /\ ~c.isNewBranch
        /\ Targeting(c.lanesBeforeCommit, c.hash) # {}
        /\ c.parents # <<>>
  /\ Len(lanes) = 2
  /\ Targets(lanes) \cap ProcessedUpTo(Len(commits)) = {}

\* ------------------------------------------------------------------ C22
SetMax(S) == CHOOSE x \in S : \A y \in S : y <= x

\* every column index given so far: to a commit, or to a lane, each lane
\* being in the lanesAfterCommit of the row that pushed it
GivenColumns ==
  {commits[n].column : n \in Rows}
    \cup UNION {Columns(commits[n].lanesAfterCommit) : n \in Rows}

\* the x coordinates drawn in the graph cell of a row: the ends of its lines
\* and the left and right edge of its commit dot
DrawnXs(commit) ==
  LET ls == generateSvgLines(commit)
  IN {ls[k].x1 : k \in 1..Len(ls)} \cup {ls[k].x2 : k \in 1..Len(ls)}
       \cup {commitDotLeft(commit), commitDotLeft(commit) + commitDotWidth}

\* C22: after any prefix of the pass maxColumn is the largest column index
\* given so far to a commit or a lane (0 when none was given) and is at most
\* MAX_COLUMNS - 1; so every commit's column and every column of its
\* lanesBeforeCommit and lanesAfterCommit is at most maxColumn, and everything
\* drawn in a row lies within the graph width computed from maxColumn.
C22_MaxColumnIsLargestGiven ==
  /\ maxColumn = SetMax(GivenColumns \cup {0})
  /\ maxColumn <= MAX_COLUMNS - 1
  /\ \A col \in Columns(lanes) : col <= maxColumn
  /\ \A n \in Rows :
       /\ commits[n].column <= maxColumn
       /\ \A col \in Columns(commits[n].lanesBeforeCommit) : col <= maxColumn
       /\ \A col \in Columns(commits[n].lanesAfterCommit) : col <= maxColumn
       /\ \A x \in DrawnXs(commits[n]) : 0 <= x /\ x <= GRAPH_WIDTH

\* a merge commit whose second parent got its lane on the largest column
\* given so far, with that lane consumed since: maxColumn stays above every
\* column still active
C22_Witness ==
  /\ maxColumn >= 1
  /\ \E n \in Rows :
       \E k \in PushedBy(commits[n].lanesAfterCommit, n) :
         /\ commits[n].lanesAfterCommit[k].born[2] >= 2
         /\ commits[n].lanesAfterCommit[k].column = maxColumn
  /\ lanes # <<>>
  /\ \A col \in Columns(lanes) : col < maxColumn

=============================================================================
